---- MODULE Spec2Model ----
(***************************************************************************)
(* A model of seedir's tree renderer (src/src/seedir.py): seedir(), the    *)
(* recursive recursive_folder_structure() with its shared `incomplete`     *)
(* list, and the helpers beyond_depth_str, sort_dir, get_base_header.      *)
(*                                                                         *)
(* Names of directory entries are the numbers 1..MaxNodes (the entry "n"); *)
(* natsort orders them numerically.  A rendered string is the sequence of  *)
(* its lines; a line's header is the sequence of the glyphs concatenated   *)
(* into it.  Python's None is the string "None" for string parameters and  *)
(* NoLimit for the integer ones.                                           *)
(***************************************************************************)
EXTENDS Integers, Sequences, FiniteSets, TLC

\* ------------------------------------------------------------------ bounds
MaxNodes == 3
MaxDepthLimit == 2
MaxItemLimit == 2
MaxHeaderLen == 3

\* depthlimit=None / itemlimit=None
NoLimit == -1

VARIABLES
    fs,        \* the directory on disk: [parent, isdir, order]
    args,      \* the arguments of the seedir() call
    pc,        \* "start" (before the call), "run" (inside it), "done"
    cfg,       \* what seedir() hands to recursive_folder_structure
    stack,     \* the active calls of recursive_folder_structure, innermost last
    heap,      \* the Python list objects bound to `incomplete`
    output,    \* the lines accumulated so far (output += ...)
    result,    \* "none", "ok", "SeedirError" or "ValueError"
    listed,    \* folders whose filtered children were iterated (lines 118-158)
    hdr        \* a direct call of get_base_header: [incomplete, extend, space, out]

vars == <<fs, args, pc, cfg, stack, heap, output, result, listed, hdr>>

\* ------------------------------------------------------------ the directory
Nodes == DOMAIN fs.parent
Root == 0

\* os.listdir / os.path.isdir see a tree: every entry has one parent folder.
\* The trees of n entries, in the two orders os.listdir may return them.
Trees(n) ==
    { t \in [parent : [1..n -> 0..(n - 1)], isdir : [1..n -> BOOLEAN],
             order : {"asc", "desc"}] :
        \A e \in 1..n : /\ t.parent[e] < e
                        /\ (t.parent[e] # Root => t.isdir[t.parent[e]]) }

IsDir(n) == n = Root \/ fs.isdir[n]

ChildSet(p) == { n \in Nodes : fs.parent[n] = p }

RECURSIVE NodeDepth(_)
NodeDepth(n) == IF n = Root THEN 0 ELSE 1 + NodeDepth(fs.parent[n])

RECURSIVE Ancestor(_, _)
\* the ancestor of n at depth j (j <= NodeDepth(n))
Ancestor(n, j) == IF NodeDepth(n) = j THEN n ELSE Ancestor(fs.parent[n], j)

Min(a, b) == IF a < b THEN a ELSE b

RECURSIVE Ascending(_)
Ascending(S) ==
    IF S = {} THEN <<>>
    ELSE LET m == CHOOSE x \in S : \A y \in S : x <= y
         IN <<m>> \o Ascending(S \ {m})

Reverse(s) == [k \in 1..Len(s) |-> s[Len(s) + 1 - k]]

\* os.listdir(path): the children in the order the file system returns them
Listdir(p) ==
    IF fs.order = "asc" THEN Ascending(ChildSet(p)) ELSE Reverse(Ascending(ChildSet(p)))

\* ------------------------------------------------------------ pure helpers
\* sum([os.path.isfile(p) for p in paths])
count_files(paths) == Cardinality({ k \in 1..Len(paths) : ~IsDir(paths[k]) })

\* sum([os.path.isdir(p) for p in paths])
count_folders(paths) == Cardinality({ k \in 1..Len(paths) : IsDir(paths[k]) })

\* a string starting with "_", and what follows the "_"
CustomBeyond == {"_custom", "_"}
AfterUnderscore(b) == IF b = "_custom" THEN "custom" ELSE ""

\* the text of a beyond line: a literal, or the two counts of
\* '{} folder(s), {} file(s)'.format(folders, files)
Literal(str) == [fmt |-> "literal", lit |-> str, folders |-> 0, files |-> 0]
Counts(k, n) == [fmt |-> "counts", lit |-> "", folders |-> k, files |-> n]
NoText == Literal("")

\* beyond_depth_str: the text of the line, or the SeedirError it raises
beyond_depth_str(beyond, paths) ==
    IF beyond = "ellipsis" THEN [ok |-> TRUE, text |-> Literal("...")]
    ELSE IF beyond \in {"contents", "content"}
         THEN [ok |-> TRUE, text |-> Counts(count_folders(paths), count_files(paths))]
    ELSE IF beyond \in CustomBeyond
         THEN [ok |-> TRUE, text |-> Literal(AfterUnderscore(beyond))]
    ELSE [ok |-> FALSE, text |-> NoText]

\* sort_key: None, or a callable; "parity" is lambda name: int(name) % 2
KeyOf(sort_key, n) == IF sort_key = "parity" THEN n % 2 ELSE n

\* a goes before b in sorted(..., reverse=sort_reverse)
Before(a, b, sort_reverse, sort_key) ==
    IF sort_reverse THEN KeyOf(sort_key, a) > KeyOf(sort_key, b)
    ELSE KeyOf(sort_key, a) < KeyOf(sort_key, b)

RECURSIVE InsertSorted(_, _, _, _)
\* x goes after every element that does not come strictly after it (stable)
InsertSorted(s, x, sort_reverse, sort_key) ==
    IF s = <<>> THEN <<x>>
    ELSE IF Before(x, Head(s), sort_reverse, sort_key)
         THEN <<x>> \o s
         ELSE <<Head(s)>> \o InsertSorted(Tail(s), x, sort_reverse, sort_key)

RECURSIVE natsorted(_, _, _)
\* natsort.natsorted(paths, reverse=..., key=...): a stable sort
natsorted(paths, sort_reverse, sort_key) ==
    IF paths = <<>> THEN <<>>
    ELSE InsertSorted(natsorted(SubSeq(paths, 1, Len(paths) - 1), sort_reverse, sort_key),
                      paths[Len(paths)], sort_reverse, sort_key)

IsFolderEntry(n) == IsDir(n)
IsNotFolderEntry(n) == ~IsDir(n)

\* sort_dir with the grouping lost: one sort over folders and files together
sort_dir_ungrouped(paths, first, sort_reverse, sort_key) ==
    natsorted(paths, sort_reverse, sort_key)

sort_dir(paths, first, sort_reverse, sort_key) ==
    IF first \in {"folders", "files"}
    THEN LET folders == natsorted(SelectSeq(paths, IsFolderEntry), sort_reverse, sort_key)
             files   == natsorted(SelectSeq(paths, IsNotFolderEntry), sort_reverse, sort_key)
         IN IF first = "folders" THEN folders \o files ELSE files \o folders
    ELSE natsorted(paths, sort_reverse, sort_key)

\* max(incomplete)
RECURSIVE MaxOf(_)
MaxOf(s) == IF Len(s) = 1 THEN s[1]
            ELSE LET m == MaxOf(Tail(s)) IN IF s[1] > m THEN s[1] ELSE m

InList(x, s) == \E k \in 1..Len(s) : s[k] = x

RECURSIVE HeaderLoop(_, _, _, _, _)
\* for p in range(max_i): append extend or space
HeaderLoop(p, max_i, incomplete, extend, space) ==
    IF p >= max_i THEN <<>>
    ELSE <<IF InList(p, incomplete) THEN extend ELSE space>>
         \o HeaderLoop(p + 1, max_i, incomplete, extend, space)

\* get_base_header counting the entries of the list instead of taking its max
get_base_header_len(incomplete, extend, space) ==
    IF incomplete = <<>> THEN [ok |-> FALSE, val |-> <<>>]
    ELSE [ok |-> TRUE, val |-> HeaderLoop(0, Len(incomplete), incomplete, extend, space)]

\* get_base_header: max() of an empty list raises ValueError
get_base_header(incomplete, extend, space) ==
    IF incomplete = <<>> THEN [ok |-> FALSE, val |-> <<>>]
    ELSE [ok |-> TRUE, val |-> HeaderLoop(0, MaxOf(incomplete), incomplete, extend, space)]

\* list.remove(x): drops the first occurrence
RECURSIVE ListRemove(_, _)
ListRemove(s, x) ==
    IF s = <<>> THEN <<>>
    ELSE IF Head(s) = x THEN Tail(s) ELSE <<Head(s)>> \o ListRemove(Tail(s), x)

\* [n for n in incomplete if n < depth]
RECURSIVE BelowDepth(_, _)
BelowDepth(s, depth) ==
    IF s = <<>> THEN <<>>
    ELSE (IF Head(s) < depth THEN <<Head(s)>> ELSE <<>>) \o BelowDepth(Tail(s), depth)

\* printing.is_match(pattern, string, regex): the pattern "[13579]$" matches the
\* names ending in an odd digit; without regex a pattern matches only the name
\* equal to it, and no name is
is_match(pattern, name, regex) ==
    IF regex THEN pattern = "[13579]$" /\ name % 2 = 1 ELSE FALSE

IsStr(x) == x # "None"

\* filter_listdir with the files' branch (lines 106-112) lost
filter_files_unfiltered(listdir, c) ==
    IF \E x \in {c.include_folders, c.exclude_folders, c.include_files, c.exclude_files} :
           IsStr(x)
    THEN LET Keep(l) ==
                 IF IsDir(l)
                 THEN /\ ~(IsStr(c.include_folders) /\ ~is_match(c.include_folders, l, c.regex))
                      /\ ~(IsStr(c.exclude_folders) /\ is_match(c.exclude_folders, l, c.regex))
                 ELSE TRUE
         IN SelectSeq(listdir, Keep)
    ELSE listdir

\* lines 91-114: the entries of listdir that pass the name filters
filter_listdir(listdir, c) ==
    IF \E x \in {c.include_folders, c.exclude_folders, c.include_files, c.exclude_files} :
           IsStr(x)
    THEN LET Keep(l) ==
                 IF IsDir(l)
                 THEN /\ ~(IsStr(c.include_folders) /\ ~is_match(c.include_folders, l, c.regex))
                      /\ ~(IsStr(c.exclude_folders) /\ is_match(c.exclude_folders, l, c.regex))
                 ELSE /\ ~(IsStr(c.include_files) /\ ~is_match(c.include_files, l, c.regex))
                      /\ ~(IsStr(c.exclude_files) /\ is_match(c.exclude_files, l, c.regex))
         IN SelectSeq(listdir, Keep)
    ELSE listdir

\* Python truthiness of an int-or-None limit: `if depthlimit and ...`
Truthy(limit) == limit # NoLimit /\ limit # 0

\* ------------------------------------------------------------------- lines
RootLine ==
    [kind |-> "root", header |-> <<>>, branch |-> "", start |-> cfg.style["folderstart"],
     node |-> Root, sep |-> TRUE, text |-> NoText]

\* header + folderstart + f + os.sep, or header + filestart + f
EntryLine(base_header, branch, f) ==
    [kind |-> "entry", header |-> base_header, branch |-> branch,
     start |-> IF IsDir(f) THEN cfg.style["folderstart"] ELSE cfg.style["filestart"],
     node |-> f, sep |-> IsDir(f), text |-> NoText]

\* base_header + final + extra, emitted for the folder `path`
BeyondLine(base_header, path, extra) ==
    [kind |-> "beyond", header |-> base_header, branch |-> cfg.style["final"],
     start |-> "", node |-> path, sep |-> FALSE, text |-> extra]

\* ------------------------------------------------------------------ seedir
StyleKeys == {"split", "extend", "space", "final", "filestart", "folderstart"}

\* printing.get_styleargs('lines') after format_indent(indent=2): the defaults
\* of recursive_folder_structure's signature, the box-drawing glyphs written
\* in ASCII
LinesStyle ==
    [k \in StyleKeys |->
        CASE k = "split" -> "|-" [] k = "extend" -> "| " [] k = "space" -> "  "
          [] k = "final" -> "L-" [] OTHER -> ""]

\* incomplete=None
NoList == 0

Frame(path, depth, incomplete, sort) ==
    [path |-> path, depth |-> depth, inc0 |-> incomplete, inc |-> NoList,
     listdir |-> <<>>, i |-> 0, sort |-> sort, pos |-> "enter"]

\* seedir(path, ...), lines 160-189, up to the call of recursive_folder_structure
seedir ==
    /\ pc = "start"
    /\ LET s1 == IF args.uniform # ""
                 THEN [k \in StyleKeys |->
                          IF k \in {"extend", "split", "final", "space"}
                          THEN args.uniform ELSE LinesStyle[k]]
                 ELSE LinesStyle
           s2 == IF args.kwarg \in StyleKeys
                 THEN [s1 EXCEPT ![args.kwarg] = "X"] ELSE s1
           sort == IF args.sort_key # "None" \/ args.sort_reverse = TRUE
                   THEN TRUE ELSE args.sort
       IN /\ cfg' = [style |-> s2,
                     depthlimit |-> args.depthlimit, itemlimit |-> args.itemlimit,
                     beyond |-> args.beyond, first |-> args.first,
                     sort_reverse |-> args.sort_reverse, sort_key |-> args.sort_key,
                     include_folders |-> args.include_folders,
                     exclude_folders |-> args.exclude_folders,
                     include_files |-> args.include_files,
                     exclude_files |-> args.exclude_files,
                     regex |-> args.regex]
          /\ stack' = <<Frame(Root, 0, NoList, sort)>>
    /\ pc' = "run"
    /\ UNCHANGED <<fs, args, heap, output, result, listed, hdr>>

\* ------------------------------------------------ recursive_folder_structure
Top == stack[Len(stack)]
Front(s) == SubSeq(s, 1, Len(s) - 1)

\* `return output` of the innermost call: the caller goes on, or seedir returns
ReturnOutput(hp, out, lst) ==
    /\ heap' = hp
    /\ output' = out
    /\ listed' = lst
    /\ stack' = Front(stack)
    /\ IF Len(stack) = 1
       THEN pc' = "done" /\ result' = "ok"
       ELSE pc' = pc /\ result' = result

\* an exception unwinds every call: seedir returns no text
Raise(err) ==
    /\ stack' = <<>>
    /\ output' = <<>>
    /\ pc' = "done"
    /\ result' = err
    /\ UNCHANGED <<heap, listed>>

\* lines 68-117: from the call to the start of the loop over the children
Enter ==
    /\ pc = "run"
    /\ Top.pos = "enter"
    /\ LET f    == Top
           hp0  == IF f.inc0 = NoList THEN Append(heap, <<>>) ELSE heap
           inc  == IF f.inc0 = NoList THEN Len(heap) + 1 ELSE f.inc0
           out0 == IF f.depth = 0 THEN Append(output, RootLine) ELSE output
           raw  == Listdir(f.path)
           hp1  == [hp0 EXCEPT ![inc] = Append(@, f.depth)]
           depth == f.depth + 1
       IN IF f.depth = cfg.depthlimit /\ cfg.beyond = "None"
          THEN ReturnOutput(hp0, out0, listed)
          ELSE IF Truthy(cfg.depthlimit) /\ depth = cfg.depthlimit + 1
          THEN LET extra == beyond_depth_str(cfg.beyond, raw)
                   bh    == get_base_header(hp1[inc], cfg.style["extend"], cfg.style["space"])
                   emit  == cfg.beyond # "None" /\ extra.text # NoText
                   out1  == IF emit THEN Append(out0, BeyondLine(bh.val, f.path, extra.text))
                            ELSE out0
                   hp2   == IF InList(depth - 1, hp1[inc])
                            THEN [hp1 EXCEPT ![inc] = ListRemove(@, depth - 1)] ELSE hp1
               IN IF ~extra.ok THEN Raise("SeedirError")
                  ELSE IF emit /\ ~bh.ok THEN Raise("ValueError")
                  ELSE ReturnOutput(hp2, out1, listed)
          ELSE LET sorted == IF f.sort \/ cfg.first # "None"
                             THEN sort_dir(raw, cfg.first, cfg.sort_reverse, cfg.sort_key)
                             ELSE raw
                   kept   == filter_listdir(sorted, cfg)
                   hp2    == IF kept = <<>> /\ InList(depth - 1, hp1[inc])
                             THEN [hp1 EXCEPT ![inc] = ListRemove(@, depth - 1)] ELSE hp1
               IN /\ stack' = [stack EXCEPT ![Len(stack)] =
                                  [f EXCEPT !.depth = depth, !.inc = inc,
                                            !.listdir = kept, !.i = 0, !.pos = "loop"]]
                  /\ heap' = hp2
                  /\ output' = out0
                  /\ listed' = listed \cup {f.path}
                  /\ UNCHANGED <<pc, result>>
    /\ UNCHANGED <<fs, args, cfg, hdr>>

\* lines 118-157: one pass of `for i, f in enumerate(listdir)`
Iterate ==
    /\ pc = "run"
    /\ Top.pos = "loop"
    /\ Top.i < Len(Top.listdir)
    /\ LET fr     == Top
           i      == fr.i
           f      == fr.listdir[i + 1]
           depth  == fr.depth
           bh     == get_base_header(heap[fr.inc], cfg.style["extend"], cfg.style["space"])
           last   == i = Len(fr.listdir) - 1
           cut    == Truthy(cfg.itemlimit) /\ i = cfg.itemlimit - 1 /\ cfg.beyond = "None"
           branch == IF last \/ cut THEN cfg.style["final"] ELSE cfg.style["split"]
           canRemove == InList(depth - 1, heap[fr.inc])
           removed == ListRemove(heap[fr.inc], depth - 1)
           \* incomplete.remove(depth-1) on the shared list, then a new list object
           hp1    == IF last
                     THEN Append([heap EXCEPT ![fr.inc] = removed], BelowDepth(removed, depth))
                     ELSE heap
           inc1   == IF last THEN Len(heap) + 1 ELSE fr.inc
           rest   == SubSeq(fr.listdir, i + 1, Len(fr.listdir))
           extra  == beyond_depth_str(cfg.beyond, rest)
           caller == [fr EXCEPT !.inc = inc1, !.i = i + 1]
       IN IF ~bh.ok \/ (last /\ ~canRemove) THEN Raise("ValueError")
          ELSE IF i = cfg.itemlimit
          THEN IF cfg.beyond # "None"
               THEN IF ~extra.ok THEN Raise("SeedirError")
                    ELSE ReturnOutput(hp1, Append(output, BeyondLine(bh.val, fr.path, extra.text)),
                                      listed)
               ELSE ReturnOutput(hp1, output, listed)
          ELSE /\ output' = Append(output, EntryLine(bh.val, branch, f))
               /\ heap' = hp1
               /\ stack' = IF IsDir(f)
                           THEN Append([stack EXCEPT ![Len(stack)] = caller],
                                       Frame(f, depth, inc1, TRUE))
                           ELSE [stack EXCEPT ![Len(stack)] = caller]
               /\ UNCHANGED <<pc, result, listed>>
    /\ UNCHANGED <<fs, args, cfg, hdr>>

\* line 158: the loop is over, `return output`
Return ==
    /\ pc = "run"
    /\ Top.pos = "loop"
    /\ Top.i = Len(Top.listdir)
    /\ ReturnOutput(heap, output, listed)
    /\ UNCHANGED <<fs, args, cfg, hdr>>

\* ------------------------------------------------------------- the inputs
Limits(max) == {NoLimit} \cup 0..max

Beyonds == {"None", "ellipsis", "content", "_custom", "_", "summary"}

NoFilters ==
    [include_folders |-> "None", exclude_folders |-> "None",
     include_files |-> "None", exclude_files |-> "None"]

Filters ==
    {NoFilters,
     [NoFilters EXCEPT !.include_folders = "[13579]$"],
     [NoFilters EXCEPT !.exclude_folders = "[13579]$"],
     [NoFilters EXCEPT !.include_files = "[13579]$"],
     [NoFilters EXCEPT !.exclude_files = "[13579]$"],
     [NoFilters EXCEPT !.exclude_folders = "[13579]$", !.exclude_files = "[13579]$"]}

\* the defaults of seedir's signature, lines 160-164
DefaultArgs ==
    [depthlimit |-> NoLimit, itemlimit |-> NoLimit, beyond |-> "None", first |-> "None",
     sort |-> TRUE, sort_reverse |-> FALSE, sort_key |-> "None",
     include_folders |-> "None", exclude_folders |-> "None",
     include_files |-> "None", exclude_files |-> "None",
     regex |-> TRUE, uniform |-> "", kwarg |-> ""]

\* calls that set the limits, the beyond policy and the name filters
LimitArgs ==
    { [DefaultArgs EXCEPT !.depthlimit = d, !.itemlimit = k, !.beyond = b, !.first = g,
                          !.include_folders = flt.include_folders,
                          !.exclude_folders = flt.exclude_folders,
                          !.include_files = flt.include_files,
                          !.exclude_files = flt.exclude_files] :
        d \in Limits(MaxDepthLimit), k \in Limits(MaxItemLimit), b \in Beyonds,
        g \in {"None", "files"}, flt \in Filters }

\* calls that set the ordering of the children
SortArgs ==
    { [DefaultArgs EXCEPT !.first = g, !.sort = st, !.sort_reverse = r, !.sort_key = key,
                          !.itemlimit = k, !.exclude_files = x] :
        g \in {"None", "folders", "files"}, st \in BOOLEAN, r \in BOOLEAN,
        key \in {"None", "parity"}, k \in Limits(MaxItemLimit),
        x \in {"None", "[13579]$"} }

\* calls that set the item limit and the beyond policy only
ItemArgs ==
    { [DefaultArgs EXCEPT !.itemlimit = k, !.beyond = b] :
        k \in Limits(MaxItemLimit), b \in Beyonds }

\* calls that set the glyphs: uniform=..., or one more keyword argument
StyleArgs ==
    { [DefaultArgs EXCEPT !.uniform = u, !.kwarg = kw, !.itemlimit = k] :
        u \in {"", "  "}, kw \in StyleKeys \cup {"", "spacing"},
        k \in Limits(MaxItemLimit) }

NoCfg == <<>>
NoHdr == [incomplete |-> <<>>, extend |-> "", space |-> "", called |-> FALSE,
          out |-> [ok |-> FALSE, val |-> <<>>]]

Init ==
    /\ \/ /\ fs \in Trees(MaxNodes)
          /\ args \in SortArgs
       \/ /\ fs \in { t \in Trees(MaxNodes) : t.order = "asc" }
          /\ args \in LimitArgs \cup StyleArgs
       \/ /\ fs \in { t \in Trees(MaxNodes + 1) : t.order = "asc" }
          /\ args \in ItemArgs
    /\ pc = "start"
    /\ cfg = NoCfg
    /\ stack = <<>>
    /\ heap = <<>>
    /\ output = <<>>
    /\ result = "none"
    /\ listed = {}
    /\ hdr = NoHdr

Next == seedir \/ Enter \/ Iterate \/ Return

Spec == Init /\ [][Next]_vars

\* --------------------------------------- get_base_header called on its own
RECURSIVE ListsUpTo(_)
ListsUpTo(n) ==
    IF n = 0 THEN {<<>>}
    ELSE LET shorter == ListsUpTo(n - 1)
         IN shorter \cup { Append(s, d) : s \in shorter, d \in 0..MaxHeaderLen }

InitHeader ==
    /\ hdr \in { [NoHdr EXCEPT !.incomplete = s, !.extend = g[1], !.space = g[2]] :
                   s \in ListsUpTo(MaxHeaderLen), g \in {<<"| ", "  ">>, <<"--", "--">>} }
    /\ fs = [parent |-> <<Root>>, isdir |-> <<FALSE>>, order |-> "asc"]
    /\ args = DefaultArgs
    /\ pc = "header"
    /\ cfg = NoCfg
    /\ stack = <<>>
    /\ heap = <<>>
    /\ output = <<>>
    /\ result = "none"
    /\ listed = {}

CallGetBaseHeader ==
    /\ pc = "header"
    /\ ~hdr.called
    /\ hdr' = [hdr EXCEPT !.called = TRUE,
                          !.out = get_base_header(hdr.incomplete, hdr.extend, hdr.space)]
    /\ UNCHANGED <<fs, args, pc, cfg, stack, heap, output, result, listed>>

NextHeader == CallGetBaseHeader

SpecHeader == InitHeader /\ [][NextHeader]_vars

\* ------------------------------------------------------ reading the output
Done == pc = "done"
Returned == pc = "done" /\ result = "ok"

Folders == { n \in Nodes \cup {Root} : IsDir(n) }

\* the lines of folder F's children, in the order they were emitted
EntriesOf(F) ==
    LET IsChild(l) == l.kind = "entry" /\ fs.parent[l.node] = F
    IN SelectSeq(output, IsChild)

\* the beyond lines emitted for folder F
BeyondsOf(F) ==
    LET IsFor(l) == l.kind = "beyond" /\ l.node = F
    IN SelectSeq(output, IsFor)

HasLine(n) == \E k \in 1..Len(output) : output[k].kind = "entry" /\ output[k].node = n

LineOf(n) == output[CHOOSE k \in 1..Len(output) :
                       output[k].kind = "entry" /\ output[k].node = n]

\* a child the include/exclude filters of the call drop
Dropped(c) ==
    IF IsDir(c)
    THEN \/ (args.include_folders # "None" /\ c % 2 # 1)
         \/ (args.exclude_folders # "None" /\ c % 2 = 1)
    ELSE \/ (args.include_files # "None" /\ c % 2 # 1)
         \/ (args.exclude_files # "None" /\ c % 2 = 1)

Surviving(F) == { c \in ChildSet(F) : ~Dropped(c) }

DefaultGlyphs == args.uniform = "" /\ args.kwarg \notin StyleKeys

\* ------------------------------------------------------------------ claims

\* C1: a call with a keyword argument that is no recognized configuration key
\* fails with a SeedirError.
C1_UnknownKwargRaises ==
    (Done /\ args.kwarg # "" /\ args.kwarg \notin StyleKeys) => result = "SeedirError"

\* C2: whatever depthlimit (0 included) and beyond policy, no entry deeper than
\* depthlimit has a line of its own, and a folder at the limit gets at most one
\* beyond line.
C2_NothingBelowDepthLimit ==
    (pc # "start" /\ args.depthlimit # NoLimit) =>
        /\ \A k \in 1..Len(output) :
              output[k].kind = "entry" => NodeDepth(output[k].node) <= args.depthlimit
        /\ \A F \in Folders : Len(BeyondsOf(F)) <= 1

\* C3: filtering comes before limiting: a folder whose children are listed, with
\* `total` children of which `m` are dropped by the filters, gets exactly
\* min(itemlimit, total - m) child lines (total - m when itemlimit is unset), and
\* none of them is a dropped child.  Without a depthlimit the folders whose
\* children are listed are the root and every folder that has a line.
C3_FilterBeforeLimit ==
    Returned =>
        /\ \A F \in listed :
              LET total == Cardinality(ChildSet(F))
                  m     == Cardinality({ c \in ChildSet(F) : Dropped(c) })
              IN /\ Len(EntriesOf(F)) =
                       IF args.itemlimit = NoLimit THEN total - m
                       ELSE Min(args.itemlimit, total - m)
                 /\ \A k \in 1..Len(EntriesOf(F)) : ~Dropped(EntriesOf(F)[k].node)
        /\ args.depthlimit = NoLimit =>
              listed = {Root} \cup { F \in Folders : F # Root /\ HasLine(F) }

C3_Witness ==
    /\ Returned
    /\ args.itemlimit = 1
    /\ args.exclude_files # "None"
    /\ ChildSet(Root) = {1, 2, 3}
    /\ ~IsDir(1)
    /\ Len(EntriesOf(Root)) = 1
    /\ EntriesOf(Root)[1].node = 2

\* C4: with beyond='content', the two counts of every summary line are the
\* omitted folders and the omitted files of its folder that pass the filters.
C4_SummaryCountsOmitted ==
    \A k \in 1..Len(output) :
        (output[k].kind = "beyond" /\ output[k].text.fmt = "counts") =>
            LET F       == output[k].node
                omitted == { c \in Surviving(F) : ~HasLine(c) }
            IN /\ output[k].text.folders = Cardinality({ c \in omitted : IsDir(c) })
               /\ output[k].text.files = Cardinality({ c \in omitted : ~IsDir(c) })

\* C5: a beyond value that is none of 'ellipsis', 'content'/'contents', '_...'
\* makes the call fail with a SeedirError and return no text, whatever the
\* limits.
C5_InvalidBeyondRaises ==
    (Done /\ args.beyond \notin {"None", "ellipsis", "content", "contents"} \cup CustomBeyond)
        => (result = "SeedirError" /\ output = <<>>)

\* C6: with first='folders' or 'files', in every folder's listing the entries of
\* the preferred kind precede the others, also when sort is off, and inside each
\* kind the entries are ordered by sort_key, reversed when sort_reverse is set.
C6_GroupedThenSorted ==
    (pc # "start" /\ args.first \in {"folders", "files"}) =>
        \A F \in Folders :
            LET e == EntriesOf(F)
            IN \A a, b \in 1..Len(e) :
                  a < b =>
                     LET x == e[a].node
                         y == e[b].node
                     IN /\ IsDir(x) # IsDir(y) => (IsDir(x) <=> args.first = "folders")
                        /\ IsDir(x) = IsDir(y) =>
                              IF args.sort_reverse
                              THEN KeyOf(args.sort_key, x) >= KeyOf(args.sort_key, y)
                              ELSE KeyOf(args.sort_key, x) <= KeyOf(args.sort_key, y)

C6_Witness ==
    /\ Returned
    /\ args.first = "folders"
    /\ args.sort = FALSE
    /\ ChildSet(Root) = {1, 2, 3}
    /\ ~IsDir(1) /\ ~IsDir(2) /\ IsDir(3)
    /\ Listdir(Root) = <<1, 2, 3>>
    /\ Len(EntriesOf(Root)) = 3
    /\ EntriesOf(Root)[1].node = 3
    /\ EntriesOf(Root)[2].node = 1

\* C7: the line of an entry at depth d has d - 1 header segments, the j-th being
\* `extend` when the ancestor at depth j was drawn with `split` and `space`
\* otherwise, and its branch glyph is `final` exactly when it is the last line
\* emitted for its folder.
C7_HeaderShape ==
    (Returned /\ DefaultGlyphs) =>
        \A k \in 1..Len(output) :
            output[k].kind = "entry" =>
                LET n == output[k].node
                    d == NodeDepth(n)
                    F == fs.parent[n]
                    isLastOfFolder ==
                        \A j \in (k + 1)..Len(output) :
                            ~ \/ (output[j].kind = "entry" /\ fs.parent[output[j].node] = F)
                              \/ (output[j].kind = "beyond" /\ output[j].node = F)
                IN /\ Len(output[k].header) = d - 1
                   /\ \A j \in 1..Min(d - 1, Len(output[k].header)) :
                         output[k].header[j] =
                             IF LineOf(Ancestor(n, j)).branch = cfg.style["split"]
                             THEN cfg.style["extend"] ELSE cfg.style["space"]
                   /\ (output[k].branch = cfg.style["final"]) <=> isLastOfFolder

\* C8: when recursive_folder_structure returns from a folder at depth d, the
\* list the caller passed as `incomplete` holds no depth >= d.
C8_ReturnClearsDepth ==
    [][ (pc = "run" /\ Len(stack') < Len(stack) /\ result' \in {"none", "ok"}
            /\ Top.inc0 # NoList)
        => LET d == IF Top.pos = "enter" THEN Top.depth ELSE Top.depth - 1
           IN \A k \in 1..Len(heap'[Top.inc0]) : heap'[Top.inc0][k] < d ]_vars

\* C9: with sort off, no grouping, no sort_key and sort_reverse false, the
\* children of every folder, at every depth, are listed in the order the
\* enumeration returned them.
C9_SortOffKeepsListdirOrder ==
    (Returned /\ args.sort = FALSE /\ args.first = "None" /\ args.sort_key = "None"
        /\ args.sort_reverse = FALSE) =>
        \A F \in Folders :
            LET e   == EntriesOf(F)
                raw == SelectSeq(Listdir(F), LAMBDA c : ~Dropped(c))
            IN /\ Len(e) <= Len(raw)
               /\ \A k \in 1..Min(Len(e), Len(raw)) : e[k].node = raw[k]

\* C10: get_base_header on a non-empty list returns max(incomplete) segments, the
\* p-th being `extend` if p is in the list and `space` otherwise; on an empty
\* list it raises ValueError.
C10_BaseHeader ==
    hdr.called =>
        LET elems == { hdr.incomplete[k] : k \in 1..Len(hdr.incomplete) }
        IN IF elems = {}
           THEN ~hdr.out.ok
           ELSE LET max == CHOOSE m \in elems : \A x \in elems : x <= m
                IN /\ hdr.out.ok
                   /\ Len(hdr.out.val) = max
                   /\ \A p \in 0..(max - 1) :
                         hdr.out.val[p + 1] = IF p \in elems THEN hdr.extend ELSE hdr.space

C10_Witness ==
    /\ hdr.called
    /\ hdr.incomplete = <<0, 1, 3>>
    /\ hdr.extend = "| "
    /\ hdr.out = [ok |-> TRUE, val |-> <<"| ", "| ", "  ">>]

====
